---- MODULE Spec2Model ----
(***************************************************************************)
(* Shamir secret recovery (src/abc.js, src/unnamed/part_000): the base-N   *)
(* decoder parseValueBigInt, the extended-Euclid modInverse, the modular   *)
(* Lagrange interpolation lagrangeInterpolateBigInt and the orchestration  *)
(* recoverSecret.  The two files hold the same four functions line for     *)
(* line; the line numbers quoted in comments are those of src/abc.js.      *)
(*                                                                         *)
(* JavaScript strings are modelled as sequences of one-character strings,  *)
(* BigInt values as TLA+ integers (no wrap-around: TLC reports overflow    *)
(* instead of wrapping), a thrown exception as an outcome of kind "throw". *)
(***************************************************************************)
EXTENDS Integers, Sequences, FiniteSets

VARIABLES
    call,   \* the function under call
    args,   \* its arguments
    ret,    \* its outcome: Pending, Return(v) or Throw(e)
    loop,   \* modInverse's locals a, m, x0, x1, m0 and its position pc
    console \* what recoverSecret has written with console.log

vars == <<call, args, ret, loop, console>>

-----------------------------------------------------------------------------
(* Outcomes of a call *)

Pending == [kind |-> "pending", value |-> 0, error |-> ""]

Return(v) == [kind |-> "return", value |-> v, error |-> ""]

Throw(e) == [kind |-> "throw", value |-> 0, error |-> e]

-----------------------------------------------------------------------------
(* parseValueBigInt, abc.js 8-20 *)

\* abc.js 9: const digits = '0123456789abcdefghijklmnopqrstuvwxyz'
digits ==
    << "0", "1", "2", "3", "4", "5", "6", "7", "8", "9",
       "a", "b", "c", "d", "e", "f", "g", "h", "i", "j", "k", "l", "m",
       "n", "o", "p", "q", "r", "s", "t", "u", "v", "w", "x", "y", "z" >>

UpperCase ==
    << "A", "B", "C", "D", "E", "F", "G", "H", "I", "J", "K", "L", "M",
       "N", "O", "P", "Q", "R", "S", "T", "U", "V", "W", "X", "Y", "Z" >>

\* String.prototype.toLowerCase on one character: A-Z go to a-z, every other
\* character of the model's alphabet is left as it is.
toLowerCaseChar(c) ==
    IF \E i \in 1..Len(UpperCase) : UpperCase[i] = c
    THEN digits[10 + CHOOSE i \in 1..Len(UpperCase) : UpperCase[i] = c]
    ELSE c

\* abc.js 12: value = value.toLowerCase()
toLowerCase(value) == [i \in 1..Len(value) |-> toLowerCaseChar(value[i])]

\* abc.js 15: digits.indexOf(char): the 0-based position, or -1
indexOf(char) ==
    IF \E i \in 1..Len(digits) : digits[i] = char
    THEN (CHOOSE i \in 1..Len(digits) : digits[i] = char) - 1
    ELSE -1

\* abc.js 14-18: the loop from character i on, with the accumulator result.
\* The only test on a digit is digit < 0n (line 16).
RECURSIVE parseLoop(_, _, _, _)
parseLoop(bigBase, value, i, result) ==
    IF i > Len(value) THEN Return(result)
    ELSE LET digit == indexOf(value[i])
         IN  IF digit < 0 THEN Throw("Invalid digit")
             ELSE parseLoop(bigBase, value, i + 1, result * bigBase + digit)

\* A decoder that forgets line 12 (value.toLowerCase()).
parseValueBigIntCaseSensitive(base, value) == parseLoop(base, value, 1, 0)

parseValueBigInt(base, value) == parseLoop(base, toLowerCase(value), 1, 0)

-----------------------------------------------------------------------------
(* modInverse, abc.js 23-36 *)

\* abc.js 24-25: let m0 = m; let [x0, x1] = [0n, 1n]
modInverseEnter(a, m) ==
    [a |-> a, m |-> m, x0 |-> 0, x1 |-> 1, m0 |-> m, pc |-> "guard", r |-> 0]

\* abc.js 26: if (m === 1n) return 0n
modInverseGuard(s) ==
    IF s.m = 1 THEN [s EXCEPT !.r = 0, !.pc = "done"] ELSE [s EXCEPT !.pc = "test"]

\* The loop test written as while (a > 0n).
modInverseTestPositive(s) ==
    IF s.a > 0 THEN [s EXCEPT !.pc = "body"] ELSE [s EXCEPT !.pc = "exit"]

\* The loop test written as while (a !== 1n).
modInverseTestNotOne(s) ==
    IF s.a # 1 THEN [s EXCEPT !.pc = "body"] ELSE [s EXCEPT !.pc = "exit"]

\* abc.js 28: while (a > 1n)
modInverseTest(s) ==
    IF s.a > 1 THEN [s EXCEPT !.pc = "body"] ELSE [s EXCEPT !.pc = "exit"]

\* The pass of the loop with line 31 written as [x0, x1] = [x1 - q * x0, x1].
modInverseBodyStaleX1(s) ==
    IF s.m = 0 THEN [s EXCEPT !.pc = "throw"]
    ELSE LET q == s.a \div s.m
         IN  [s EXCEPT !.a = s.m, !.m = s.a % s.m,
                       !.x0 = s.x1 - q * s.x0, !.pc = "test"]

\* abc.js 29-31, one pass of the loop body.  BigInt division by 0n throws a
\* RangeError (line 29), which leaves the function.  a and m are never
\* negative here, so / and % are \div and %.
modInverseBody(s) ==
    IF s.m = 0 THEN [s EXCEPT !.pc = "throw"]
    ELSE LET q == s.a \div s.m
         IN  [s EXCEPT !.a = s.m, !.m = s.a % s.m,
                       !.x0 = s.x1 - q * s.x0, !.x1 = s.x0, !.pc = "test"]

\* The exit without line 34: return x1 as the loop left it.
modInverseExitRaw(s) == [s EXCEPT !.r = s.x1, !.pc = "done"]

\* abc.js 34-35: if (x1 < 0n) x1 += m0; return x1
modInverseExit(s) ==
    LET x1 == IF s.x1 < 0 THEN s.x1 + s.m0 ELSE s.x1
    IN  [s EXCEPT !.x1 = x1, !.r = x1, !.pc = "done"]

\* One step of modInverse from position s.pc.
modInverseStep(s) ==
    CASE s.pc = "guard" -> modInverseGuard(s)
      [] s.pc = "test" -> modInverseTest(s)
      [] s.pc = "body" -> modInverseBody(s)
      [] s.pc = "exit" -> modInverseExit(s)

RECURSIVE modInverseRun(_)
modInverseRun(s) ==
    IF s.pc \in {"done", "throw"} THEN s ELSE modInverseRun(modInverseStep(s))

\* The whole call: Return(r), or Throw for the division by 0n.
modInverse(a, m) ==
    LET s == modInverseRun(modInverseEnter(a, m))
    IN  IF s.pc = "throw" THEN Throw("RangeError: Division by zero")
        ELSE Return(s.r)

-----------------------------------------------------------------------------
(* lagrangeInterpolateBigInt, abc.js 39-59 *)

\* The BigInt % of JavaScript: the remainder has the sign of the dividend.
Rem(a, b) == IF a >= 0 THEN a % b ELSE -((-a) % b)

\* abc.js 48-55: the inner loop from j on for point i, with the running term.
\* Positions are 1-based here.  A throw of modInverse leaves the function.
RECURSIVE innerLoop(_, _, _, _, _, _)
innerLoop(xPoints, i, j, term, targetX, primeMod) ==
    IF j > Len(xPoints) THEN Return(term)
    ELSE IF i = j THEN innerLoop(xPoints, i, j + 1, term, targetX, primeMod)
    ELSE LET xi  == xPoints[i]
             xj  == xPoints[j]
             num == Rem(targetX - xj + primeMod, primeMod)
             den == Rem(xi - xj + primeMod, primeMod)
             inv == modInverse(den, primeMod)
         IN  IF inv.kind = "throw" THEN inv
             ELSE innerLoop(xPoints, i, j + 1,
                            Rem(Rem(term * num, primeMod) * inv.value, primeMod),
                            targetX, primeMod)

\* The term of point i with the inner loop started at j = i + 1.
lagrangeTermUpper(xPoints, yi, i, targetX, primeMod) ==
    innerLoop(xPoints, i, i + 1, yi, targetX, primeMod)

\* abc.js 46-55: let term = yi; for (let j = 0; j < n; j++) ...
lagrangeTerm(xPoints, yi, i, targetX, primeMod) ==
    innerLoop(xPoints, i, 1, yi, targetX, primeMod)

\* abc.js 43-57: the outer loop from i on, with the running total.
RECURSIVE outerLoop(_, _, _, _, _, _)
outerLoop(xPoints, yPoints, i, total, targetX, primeMod) ==
    IF i > Len(xPoints) THEN Return(total)
    ELSE LET term == lagrangeTerm(xPoints, yPoints[i], i, targetX, primeMod)
         IN  IF term.kind = "throw" THEN term
             ELSE outerLoop(xPoints, yPoints, i + 1,
                            Rem(total + term.value, primeMod), targetX, primeMod)

lagrangeInterpolateBigInt(xPoints, yPoints, targetX, primeMod) ==
    outerLoop(xPoints, yPoints, 1, 0, targetX, primeMod)

-----------------------------------------------------------------------------
(* recoverSecret, abc.js 64-91 *)

\* parseInt(s, 10) on a string of decimal digits (the keys and the bases of
\* the requests modelled here are such strings).
RECURSIVE parseIntLoop(_, _, _)
parseIntLoop(s, i, n) ==
    IF i > Len(s) THEN n ELSE parseIntLoop(s, i + 1, n * 10 + indexOf(s[i]))

parseInt(s) == parseIntLoop(s, 1, 0)

\* The property name "keys" of a request.
KeysName == <<"k", "e", "y", "s">>

\* Object.keys(data): the integer-like property names in ascending numeric
\* order, then the other names ("keys") in the order they were added.
RECURSIVE ascendingKeys(_)
ascendingKeys(K) ==
    IF K = {} THEN <<>>
    ELSE LET least == CHOOSE a \in K : \A b \in K : parseInt(a) <= parseInt(b)
         IN  <<least>> \o ascendingKeys(K \ {least})

ObjectKeys(data) == ascendingKeys(DOMAIN data.shares) \o <<KeysName>>

\* abc.js 69: .filter(key => key !== 'keys')
RECURSIVE filterKeys(_)
filterKeys(s) ==
    IF s = <<>> THEN <<>>
    ELSE IF Head(s) # KeysName THEN <<Head(s)>> \o filterKeys(Tail(s))
    ELSE filterKeys(Tail(s))

\* Array.prototype.sort() without a comparator: UTF-16 order of the strings
\* (for the characters of the alphabet, their order in digits).
RECURSIVE compareKeysLexical(_, _)
compareKeysLexical(a, b) ==
    IF a = <<>> THEN (IF b = <<>> THEN 0 ELSE -1)
    ELSE IF b = <<>> THEN 1
    ELSE IF indexOf(Head(a)) # indexOf(Head(b)) THEN indexOf(Head(a)) - indexOf(Head(b))
    ELSE compareKeysLexical(Tail(a), Tail(b))

\* abc.js 70: the comparator (a, b) => parseInt(a) - parseInt(b)
compareKeys(a, b) == parseInt(a) - parseInt(b)

\* Array.prototype.sort with compareKeys: a stable sort, here by insertion.
RECURSIVE insertKey(_, _)
insertKey(sorted, key) ==
    IF sorted = <<>> THEN <<key>>
    ELSE IF compareKeys(key, Head(sorted)) < 0 THEN <<key>> \o sorted
    ELSE <<Head(sorted)>> \o insertKey(Tail(sorted), key)

RECURSIVE sortKeys(_, _)
sortKeys(s, sorted) ==
    IF s = <<>> THEN sorted ELSE sortKeys(Tail(s), insertKey(sorted, Head(s)))

\* abc.js 71: .slice(0, k)
slice(s, k) == SubSeq(s, 1, IF k < Len(s) THEN k ELSE Len(s))

\* abc.js 68-71
selectIndices(data) == slice(sortKeys(filterKeys(ObjectKeys(data)), <<>>), data.k)

\* abc.js 76-81: the forEach from position i on; a throw of parseValueBigInt
\* leaves recoverSecret.
RECURSIVE decodeLoop(_, _, _, _, _)
decodeLoop(data, indices, i, xPoints, yPoints) ==
    IF i > Len(indices) THEN [outcome |-> Return(0), xPoints |-> xPoints, yPoints |-> yPoints]
    ELSE LET key   == indices[i]
             base  == parseInt(data.shares[key].base)
             value == data.shares[key].value
             y     == parseValueBigInt(base, value)
         IN  IF y.kind = "throw"
             THEN [outcome |-> y, xPoints |-> Append(xPoints, parseInt(key)), yPoints |-> yPoints]
             ELSE decodeLoop(data, indices, i + 1,
                             Append(xPoints, parseInt(key)), Append(yPoints, y.value))

\* abc.js 83: const PRIME = 2n ** 521n - 1n.  TLC's integers are 32 bits wide,
\* so the model takes the Mersenne prime 2^13 - 1, the largest whose products
\* of two residues fit; every index and decoded value of the requests
\* modelled here is below it, as the program's are below 2^521 - 1.
PRIME == 2^13 - 1

\* abc.js 86-90: the console.log lines that carry data (toString of a BigInt
\* is kept as the integer).
Report(xPoints, yPoints, recoveredC) ==
    << <<"Used share indices:", xPoints>>,
       <<"Decoded shares:", yPoints>>,
       <<"Recovered secret (c):", recoveredC>> >>

\* The whole call: its outcome (recoverSecret returns undefined, written 0)
\* and what it logged.
recoverSecret(data) ==
    LET d == decodeLoop(data, selectIndices(data), 1, <<>>, <<>>)
    IN  IF d.outcome.kind = "throw" THEN [outcome |-> d.outcome, console |-> <<>>]
        ELSE LET recoveredC == lagrangeInterpolateBigInt(d.xPoints, d.yPoints, 0, PRIME)
             IN  IF recoveredC.kind = "throw"
                 THEN [outcome |-> recoveredC, console |-> <<>>]
                 ELSE [outcome |-> Return(0),
                       console |-> Report(d.xPoints, d.yPoints, recoveredC.value)]

-----------------------------------------------------------------------------
(* Bounds and input domains of the decoder *)

MaxLen == 3

\* Characters the inputs are drawn from: digits legal in every base, digits
\* legal only in large bases, upper-case letters, and two characters outside
\* the alphabet.
InputChars == {"0", "1", "2", "3", "f", "g", "z", "F", "Z", "-", "!"}

\* Declared bases: the legal range [2, 36] and its neighbours 0, 1 and 37.
InputBases == 0..37

RECURSIVE SeqsUpTo(_, _)
SeqsUpTo(S, n) ==
    IF n = 0 THEN {<<>>}
    ELSE LET shorter == SeqsUpTo(S, n - 1)
         IN  shorter \cup {Append(s, c) : s \in {t \in shorter : Len(t) = n - 1}, c \in S}

NoLoop == [a |-> 0, m |-> 0, x0 |-> 0, x1 |-> 0, m0 |-> 0, pc |-> "idle", r |-> 0]

InitParse ==
    /\ call = "parseValueBigInt"
    /\ args \in [base : InputBases, value : SeqsUpTo(InputChars, MaxLen)]
    /\ ret = Pending
    /\ loop = NoLoop
    /\ console = <<>>

CallParse ==
    /\ call = "parseValueBigInt"
    /\ ret = Pending
    /\ ret' = parseValueBigInt(args.base, args.value)
    /\ UNCHANGED <<call, args, loop, console>>

NextParse == CallParse

SpecParse == InitParse /\ [][NextParse]_vars

-----------------------------------------------------------------------------
(* modInverse called on its own, one step of the loop at a time *)

MaxModulus == 100

IsPrime(n) == n > 1 /\ \A d \in 2..(n - 1) : n % d # 0

\* The moduli are primes, as primeMod is in every call the program makes; a
\* ranges over every residue, 0 included.
InitInverse ==
    /\ call = "modInverse"
    /\ \E m \in {n \in 2..MaxModulus : IsPrime(n)} :
           args \in [a : 0..(m - 1), m : {m}]
    /\ ret = Pending
    /\ loop = NoLoop
    /\ console = <<>>

InverseOutcome(s) ==
    CASE s.pc = "done" -> Return(s.r)
      [] s.pc = "throw" -> Throw("RangeError: Division by zero")
      [] OTHER -> Pending

InverseAt(pc) ==
    /\ call = "modInverse"
    /\ loop.pc = pc
    /\ loop' = modInverseStep(loop)
    /\ ret' = InverseOutcome(loop')
    /\ UNCHANGED <<call, args, console>>

InverseEnter ==
    /\ call = "modInverse"
    /\ loop.pc = "idle"
    /\ loop' = modInverseEnter(args.a, args.m)
    /\ UNCHANGED <<call, args, ret, console>>

InverseGuard == InverseAt("guard")

InverseTest == InverseAt("test")

InverseBody == InverseAt("body")

InverseExit == InverseAt("exit")

NextInverse ==
    \/ InverseEnter
    \/ InverseGuard
    \/ InverseTest
    \/ InverseBody
    \/ InverseExit

\* The program is one thread that runs each call to its end.
SpecInverse == InitInverse /\ [][NextInverse]_vars /\ WF_vars(NextInverse)

-----------------------------------------------------------------------------
(* lagrangeInterpolateBigInt called on points of a known polynomial *)

MaxPrime == 5

MaxK == 3

Primes == {n \in 2..MaxPrime : IsPrime(n)}

Range(s) == {s[i] : i \in 1..Len(s)}

\* The sequences of n pairwise distinct elements of S.
RECURSIVE DistinctSeqs(_, _)
DistinctSeqs(S, n) ==
    IF n = 0 THEN {<<>>}
    ELSE UNION {{Append(s, x) : x \in S \ Range(s)} : s \in DistinctSeqs(S, n - 1)}

\* P(x) mod p for P = poly[1] + poly[2] x + ... + poly[k] x^(k-1), by Horner.
RECURSIVE Horner(_, _, _, _)
Horner(poly, i, x, p) ==
    IF i > Len(poly) THEN 0 ELSE (poly[i] + x * Horner(poly, i + 1, x, p)) % p

PolyEval(poly, x, p) == Horner(poly, 1, x, p)

\* The points (x, P(x) mod p) of polynomial poly at the places xs.
PointsOf(poly, xs, p) == [i \in 1..Len(xs) |-> PolyEval(poly, xs[i], p)]

\* A prime p, a threshold k, a polynomial of degree <= k-1 with coefficients in
\* [0, p), and k of its points at pairwise distinct places of [1, p), in any
\* order.  Every list of k values of [0, p) is the list of values of exactly
\* one such polynomial, so yPoints ranges over all of [0, p)^k.
InitLagrange ==
    /\ call = "lagrangeInterpolateBigInt"
    /\ \E p \in Primes, k \in 1..MaxK :
           /\ k <= p - 1
           /\ \E poly \in [1..k -> 0..(p - 1)], xs \in DistinctSeqs(1..(p - 1), k) :
                  args = [xPoints |-> xs, yPoints |-> PointsOf(poly, xs, p),
                          targetX |-> 0, primeMod |-> p, poly |-> poly]
    /\ ret = Pending
    /\ loop = NoLoop
    /\ console = <<>>

CallLagrange ==
    /\ call = "lagrangeInterpolateBigInt"
    /\ ret = Pending
    /\ ret' = lagrangeInterpolateBigInt(args.xPoints, args.yPoints,
                                        args.targetX, args.primeMod)
    /\ UNCHANGED <<call, args, loop, console>>

NextLagrange == CallLagrange

SpecLagrange == InitLagrange /\ [][NextLagrange]_vars

-----------------------------------------------------------------------------
(* recoverSecret called on a request *)

MaxThreshold == 3

\* Share indices as the request spells them; "10" sorts before "2" as a string.
ShareKeys == {<<"1">>, <<"2">>, <<"9">>, <<"1", "0">>}

\* The shares a request may hold under an index: the four of the sample
\* request (part_000 62-68), an upper-case value, a value with a digit too
\* large for its base, a base outside [2, 36], a character outside the alphabet.
ShareForms ==
    { [base |-> <<"1", "0">>, value |-> <<"4">>],
      [base |-> <<"2">>,      value |-> <<"1", "1", "1">>],
      [base |-> <<"1", "0">>, value |-> <<"1", "2">>],
      [base |-> <<"4">>,      value |-> <<"2", "1", "3">>],
      [base |-> <<"1", "6">>, value |-> <<"F", "f">>],
      [base |-> <<"1", "6">>, value |-> <<"g">>],
      [base |-> <<"3", "7">>, value |-> <<"1">>],
      [base |-> <<"1", "0">>, value |-> <<"!">>] }

\* A request: the threshold keys.k and the shares under their indices
\* (keys.n is read at line 65 and never used).
Requests ==
    UNION {[k : 1..MaxThreshold, shares : [K -> ShareForms]] : K \in SUBSET ShareKeys}

InitRecover ==
    /\ call = "recoverSecret"
    /\ args \in [data : Requests]
    /\ ret = Pending
    /\ loop = NoLoop
    /\ console = <<>>

CallRecover ==
    /\ call = "recoverSecret"
    /\ ret = Pending
    /\ LET r == recoverSecret(args.data)
       IN  /\ ret' = r.outcome
           /\ console' = r.console
    /\ UNCHANGED <<call, args, loop>>

NextRecover == CallRecover

SpecRecover == InitRecover /\ [][NextRecover]_vars

-----------------------------------------------------------------------------
(* What the specification says of a digit string, stated without the code *)

\* A character is a digit when it is one of 0-9, a-z or A-Z.
HasDigit(c) ==
    \E d \in 0..35 : digits[d + 1] = c \/ (d >= 10 /\ UpperCase[d - 9] = c)

\* Its digit value: 0-9 for 0-9, 10-35 for a-z and for A-Z alike.
DigitOf(c) ==
    CHOOSE d \in 0..35 : digits[d + 1] = c \/ (d >= 10 /\ UpperCase[d - 9] = c)

LegalBase(base) == base \in 2..36

\* Every character is a digit of value below base.
AllDigitsBelow(base, value) ==
    \A i \in 1..Len(value) : HasDigit(value[i]) /\ DigitOf(value[i]) < base

RECURSIVE Power(_, _)
Power(b, e) == IF e = 0 THEN 1 ELSE b * Power(b, e - 1)

\* The sum over positions i of digit_i * base^(len - i), leftmost first.
RECURSIVE PositionalSumFrom(_, _, _)
PositionalSumFrom(base, value, i) ==
    IF i > Len(value) THEN 0
    ELSE DigitOf(value[i]) * Power(base, Len(value) - i)
         + PositionalSumFrom(base, value, i + 1)

PositionalSum(base, value) == PositionalSumFrom(base, value, 1)

ParseDone == call = "parseValueBigInt" /\ ret.kind # "pending"

-----------------------------------------------------------------------------
LagrangeDone == call = "lagrangeInterpolateBigInt" /\ ret.kind # "pending"

\* C1: round trip.  For a prime p, k >= 1, a polynomial of degree <= k-1 with
\* coefficients in [0, p) and k of its points at pairwise distinct places of
\* [1, p), lagrangeInterpolateBigInt(xs, ys, 0, p) returns the polynomial's
\* constant term.
C1_RoundTrip == LagrangeDone => ret = Return(args.poly[1])

\* A polynomial of degree 2 over the integers mod 5 with a non-zero constant
\* term, recovered from three of its points.
C1_Witness ==
    /\ LagrangeDone
    /\ args.primeMod = 5
    /\ Len(args.xPoints) = 3
    /\ args.poly[3] # 0
    /\ args.poly[1] = 3
    /\ ret = Return(3)

-----------------------------------------------------------------------------
\* C2: parseValueBigInt(base, value) throws whenever a character of value is
\* outside the alphabet or is a digit of value >= base; such a character is
\* never folded into a returned result.  (Stated for the legal bases.)
C2_InvalidDigitRejected ==
    (ParseDone /\ LegalBase(args.base) /\ ~AllDigitsBelow(args.base, args.value))
        => ret.kind = "throw"

-----------------------------------------------------------------------------
\* C4: for a base in [2, 36] and a value whose characters are all digits below
\* the base, in either case, parseValueBigInt returns the positional sum with
\* the leftmost character most significant; "111" in base 2 is 7, "213" in
\* base 4 is 39, "ff" and "FF" in base 16 are 255.
C4_PositionalValue ==
    /\ (ParseDone /\ LegalBase(args.base) /\ AllDigitsBelow(args.base, args.value))
           => ret = Return(PositionalSum(args.base, args.value))
    /\ (ParseDone /\ args = [base |-> 2, value |-> <<"1", "1", "1">>]) => ret = Return(7)
    /\ (ParseDone /\ args = [base |-> 4, value |-> <<"2", "1", "3">>]) => ret = Return(39)
    /\ (ParseDone /\ args = [base |-> 16, value |-> <<"f", "f">>]) => ret = Return(255)
    /\ (ParseDone /\ args = [base |-> 16, value |-> <<"F", "F">>]) => ret = Return(255)

\* A mixed-case base-36 value of three digits, decoded: "Z0f" is 35*1296 + 15.
C4_Witness ==
    /\ ParseDone
    /\ args = [base |-> 36, value |-> <<"Z", "0", "f">>]
    /\ ret = Return(45375)

-----------------------------------------------------------------------------
(* What the specification says of a request, stated without the code *)

RecoverDone == call = "recoverSecret" /\ ret.kind # "pending"

\* The number a string of decimal digits spells.
Decimal(s) == PositionalSum(10, s)

\* The indices of the shares a request holds.
Indices(data) == {Decimal(key) : key \in DOMAIN data.shares}

\* The share a request holds under index x.
ShareAt(data, x) == data.shares[CHOOSE key \in DOMAIN data.shares : Decimal(key) = x]

\* The k numerically smallest indices (all of them when there are fewer).
Smallest(data) ==
    {x \in Indices(data) : Cardinality({y \in Indices(data) : y < x}) < data.k}

\* A share whose value is a numeral of its declared, legal base.
WellFormed(share) ==
    /\ LegalBase(Decimal(share.base))
    /\ AllDigitsBelow(Decimal(share.base), share.value)

\* The request reported a recovered secret.
ReportsSecret == \E i \in 1..Len(console) : console[i][1] = "Recovered secret (c):"

-----------------------------------------------------------------------------
\* C3: on a request that holds fewer than k shares recoverSecret fails; it
\* never interpolates over fewer than k points and reports no secret.
\* (Stated for requests that hold at least one share, all of them well formed.)
C3_InsufficientShares ==
    (RecoverDone /\ Cardinality(DOMAIN args.data.shares) < args.data.k
                 /\ DOMAIN args.data.shares # {}
                 /\ \A x \in Indices(args.data) : WellFormed(ShareAt(args.data, x)))
        => (ret.kind = "throw" /\ ~ReportsSecret)

-----------------------------------------------------------------------------
\* The points the call logged.
UsedX == console[1][2]

UsedY == console[2][2]

\* The requests that differ from data in one share outside the selected ones:
\* that share changed, removed, or added under an index above every selected one.
Beyond(data) ==
    LET others == {key \in ShareKeys : \A x \in Smallest(data) : Decimal(key) > x}
    IN  {[data EXCEPT !.shares = [key \in (DOMAIN data.shares) \cup {other} |->
                                     IF key = other THEN form ELSE data.shares[key]]] :
             other \in others, form \in ShareForms}
        \cup
        {[data EXCEPT !.shares = [key \in (DOMAIN data.shares) \ {other} |-> data.shares[key]]] :
             other \in others \cap DOMAIN data.shares}

\* C5: when the request holds at least k shares and the call returns, the
\* points interpolated are exactly k: the shares with the k numerically
\* smallest indices (10 after 2 and 9), x the index and y the value of that
\* same share; the shares with larger indices have no influence on what the
\* call does.
C5_SmallestIndices ==
    (RecoverDone /\ Cardinality(DOMAIN args.data.shares) >= args.data.k)
        => /\ ret.kind = "return" =>
                /\ Len(UsedX) = args.data.k
                /\ Len(UsedY) = args.data.k
                /\ Range(UsedX) = Smallest(args.data)
                /\ \A i, j \in 1..Len(UsedX) : i < j => UsedX[i] < UsedX[j]
                /\ \A i \in 1..Len(UsedX) :
                       WellFormed(ShareAt(args.data, UsedX[i])) =>
                           UsedY[i] = PositionalSum(Decimal(ShareAt(args.data, UsedX[i]).base),
                                                    ShareAt(args.data, UsedX[i]).value)
           /\ \A other \in Beyond(args.data) :
                  recoverSecret(other) = [outcome |-> ret, console |-> console]

\* Shares 2, 9 and 10 with threshold 2: the points used are those of 2 and 9.
C5_Witness ==
    /\ RecoverDone
    /\ DOMAIN args.data.shares = {<<"2">>, <<"9">>, <<"1", "0">>}
    /\ args.data.k = 2
    /\ args.data.shares[<<"9">>] = [base |-> <<"4">>, value |-> <<"2", "1", "3">>]
    /\ ret.kind = "return"
    /\ UsedX = <<2, 9>>
    /\ UsedY[2] = 39

-----------------------------------------------------------------------------
\* C6: fail-fast.  If the value of one of the k selected shares cannot be
\* parsed in its declared base, recoverSecret fails for the whole request and
\* reports no secret.  (Stated for shares whose base is legal.)
C6_FailFast ==
    (RecoverDone /\ \E x \in Smallest(args.data) :
                        /\ LegalBase(Decimal(ShareAt(args.data, x).base))
                        /\ ~WellFormed(ShareAt(args.data, x)))
        => (ret.kind = "throw" /\ ~ReportsSecret)

-----------------------------------------------------------------------------
\* C7: a selected share whose declared base lies outside [2, 36] makes
\* recoverSecret fail as an invalid digit does: no secret is reported.
C7_InvalidBase ==
    (RecoverDone /\ \E x \in Smallest(args.data) :
                        ~LegalBase(Decimal(ShareAt(args.data, x).base)))
        => (ret.kind = "throw" /\ ~ReportsSecret)

-----------------------------------------------------------------------------
\* C8: subset invariance.  For a prime p and the points of one polynomial of
\* degree <= k-1 at the places of [1, p), lagrangeInterpolateBigInt at 0
\* returns the same value for every choice of k of them.
C8_SubsetInvariance ==
    LagrangeDone =>
        \A xs \in DistinctSeqs(1..(args.primeMod - 1), Len(args.xPoints)) :
            lagrangeInterpolateBigInt(xs, PointsOf(args.poly, xs, args.primeMod),
                                      0, args.primeMod) = ret

\* Two of the four points of a line over the integers mod 5, with two other
\* points of it left unused.
C8_Witness ==
    /\ LagrangeDone
    /\ args.primeMod = 5
    /\ args.xPoints = <<2, 4>>
    /\ args.poly = <<1, 3>>
    /\ ret.kind = "return"

-----------------------------------------------------------------------------
PermutationsOf(n) ==
    {f \in [1..n -> 1..n] : \A i, j \in 1..n : i # j => f[i] # f[j]}

Permuted(s, f) == [i \in 1..Len(s) |-> s[f[i]]]

\* C9: order invariance.  For a prime p and k points with pairwise distinct x
\* in [1, p) and y in [0, p), the same permutation applied to xPoints and
\* yPoints leaves the value of lagrangeInterpolateBigInt(.., 0, p) unchanged.
C9_OrderInvariance ==
    LagrangeDone =>
        \A f \in PermutationsOf(Len(args.xPoints)) :
            lagrangeInterpolateBigInt(Permuted(args.xPoints, f), Permuted(args.yPoints, f),
                                      0, args.primeMod) = ret

\* Three points with three different values, so that a reordering is seen.
C9_Witness ==
    /\ LagrangeDone
    /\ args.primeMod = 5
    /\ args.xPoints = <<3, 1, 4>>
    /\ args.yPoints = <<2, 0, 1>>
    /\ ret.kind = "return"

-----------------------------------------------------------------------------
InverseValid ==
    call = "modInverse" /\ IsPrime(args.m) /\ 0 < args.a /\ args.a < args.m

\* C10: for a prime m and 0 < a < m the loop of modInverse(a, m) terminates
\* and the function returns r with 0 <= r < m and (a * r) mod m = 1.
C10_ModInverse ==
    /\ [](InverseValid /\ loop.pc \in {"done", "throw"} =>
              /\ ret.kind = "return"
              /\ 0 <= ret.value /\ ret.value < args.m
              /\ (args.a * ret.value) % args.m = 1)
    /\ (InverseValid ~> loop.pc = "done")

\* modInverse(2, 5): the loop leaves x1 = -2 and line 34 makes it 3.
C10_Witness ==
    /\ InverseValid
    /\ args = [a |-> 2, m |-> 5]
    /\ loop.pc = "done"
    /\ loop.x0 = 5
    /\ ret = Return(3)

-----------------------------------------------------------------------------
(* lagrangeInterpolateBigInt called on points that repeat an x, and          *)
(* modInverse called on any residue of any modulus                           *)

\* The sequences of n elements of S in which some element occurs twice.
RepeatingSeqs(S, n) ==
    {s \in [1..n -> S] : \E i, j \in 1..n : i # j /\ s[i] = s[j]}

\* A prime p and k >= 2 points with x in [1, p), two of them equal, and any y
\* in [0, p).
InitRepeated ==
    /\ call = "lagrangeInterpolateBigInt"
    /\ \E p \in Primes, k \in 2..MaxK :
           \E xs \in RepeatingSeqs(1..(p - 1), k), ys \in [1..k -> 0..(p - 1)] :
               args = [xPoints |-> xs, yPoints |-> ys, targetX |-> 0, primeMod |-> p]
    /\ ret = Pending
    /\ loop = NoLoop
    /\ console = <<>>

\* modInverse on every modulus m >= 1, prime or not, and every residue a of it.
InitInverseAny ==
    /\ call = "modInverse"
    /\ \E m \in 1..MaxModulus : args \in [a : 0..(m - 1), m : {m}]
    /\ ret = Pending
    /\ loop = NoLoop
    /\ console = <<>>

InitDuplicate == InitRepeated \/ InitInverseAny

NextDuplicate == CallLagrange \/ NextInverse

SpecDuplicate == InitDuplicate /\ [][NextDuplicate]_vars

\* C11: lagrangeInterpolateBigInt raises no error when two of its points share
\* an x: modInverse(0, m) never enters its loop for m > 1 and returns 1, and
\* the interpolation completes with a value in [0, prime).
C11_DuplicateXAccepted ==
    /\ (call = "modInverse" /\ args.a = 0 /\ args.m > 1) =>
           /\ loop.pc \in {"idle", "guard", "test", "exit", "done"}
           /\ loop.pc # "idle" => (loop.a = 0 /\ loop.m = args.m /\ loop.x0 = 0)
           /\ loop.pc = "done" => ret = Return(1)
    /\ (LagrangeDone /\ \E i, j \in 1..Len(args.xPoints) :
                            i # j /\ args.xPoints[i] = args.xPoints[j]) =>
           /\ ret.kind = "return"
           /\ 0 <= ret.value /\ ret.value < args.primeMod

\* Three points over the integers mod 5, two of them at x = 2 with different
\* y, interpolated to a value.
C11_Witness ==
    /\ LagrangeDone
    /\ args.primeMod = 5
    /\ args.xPoints = <<2, 2, 3>>
    /\ args.yPoints = <<1, 4, 0>>
    /\ ret.kind = "return"

====
